---- MODULE Spec2Model ----
(***************************************************************************)
(* Model of agent-diva-gui/src-tauri/check_browsers.py: a linear script    *)
(* that (1) asks webbrowser.open to open a URL, (2) scans a table of       *)
(* well-known installation paths, (3) scans the directories of PATH for    *)
(* browser executables and (4) asks webbrowser.get for the default         *)
(* controller.  Standard output is the sequence out of line records.       *)
(*                                                                         *)
(* A string the script takes apart (PATH, a directory, a joined path) is a *)
(* sequence of one-character strings; a file name or a whole candidate     *)
(* path that is never taken apart is one element of such a sequence.       *)
(***************************************************************************)
EXTENDS Integers, Sequences, FiniteSets, TLC

VARIABLES
    os_name,        \* os.name of the host: "nt" or "posix"
    environ,        \* os.environ, a set of <<name, value>> pairs
    browsers,       \* the candidate table, in dict insertion order
    fs_files,       \* paths that exist and are files
    fs_dirs,        \* paths that exist and are directories
    pc,             \* the step the script is about to run
    out,            \* standard output, one record per printed line
    paths,          \* the script's global `paths`
    probed,         \* history of the calls of os.path.exists / isdir
    launch_outcome, \* what webbrowser.open did: "True", "False" or a class
    resolve_outcome,\* what webbrowser.get did: "controller" or a class
    exit_status     \* process exit status, -1 while running

vars == <<os_name, environ, browsers, fs_files, fs_dirs, pc, out, paths,
          probed, launch_outcome, resolve_outcome, exit_status>>

----------------------------------------------------------------------------
(* Bounds of the explored inputs *)

MaxPathLen == 3

MaxExisting == 2

PathChars == {"a", "b", ";", ":"}

PathValues == UNION {[1..n -> PathChars] : n \in 0..MaxPathLen}

DirNames == {<<"a">>, <<"b">>}

InstalledExes == {"chrome.exe"}

----------------------------------------------------------------------------
(* Program constants *)

ChromePaths ==
    << <<"C:\\Program Files\\Google\\Chrome\\Application\\chrome.exe">>,
       <<"C:\\Program Files (x86)\\Google\\Chrome\\Application\\chrome.exe">>,
       <<"~\\AppData\\Local\\Google\\Chrome\\Application\\chrome.exe">> >>

EdgePaths ==
    << <<"C:\\Program Files (x86)\\Microsoft\\Edge\\Application\\msedge.exe">>,
       <<"C:\\Program Files\\Microsoft\\Edge\\Application\\msedge.exe">> >>

FirefoxPaths ==
    << <<"C:\\Program Files\\Mozilla Firefox\\firefox.exe">>,
       <<"C:\\Program Files (x86)\\Mozilla Firefox\\firefox.exe">> >>

OperaPaths ==
    << <<"C:\\Program Files\\Opera\\launcher.exe">>,
       <<"C:\\Program Files (x86)\\Opera\\launcher.exe">> >>

\* The table of the script.
BrowserTable ==
    << [name |-> "Chrome",  paths |-> ChromePaths],
       [name |-> "Edge",    paths |-> EdgePaths],
       [name |-> "Firefox", paths |-> FirefoxPaths],
       [name |-> "Opera",   paths |-> OperaPaths] >>

\* The two-browser table of the end-to-end scenario.
ScenarioTable ==
    << [name |-> "Chrome",  paths |-> << <<"/no/such/path">> >>],
       [name |-> "Firefox", paths |-> << <<"/no/such/path2">> >>] >>

browser_exes ==
    <<"chrome.exe", "firefox.exe", "msedge.exe", "opera.exe", "iexplore.exe">>

----------------------------------------------------------------------------
(* Platform services the script calls *)

\* os.pathsep
pathsep == IF os_name = "nt" THEN ";" ELSE ":"

\* os.sep, and the characters os.path.join accepts as a trailing separator
sep == IF os_name = "nt" THEN "\\" ELSE "/"

seps == IF os_name = "nt" THEN {"\\", "/"} ELSE {"/"}

\* os.environ.get(key, default)
environ_get(key, default) ==
    IF \E kv \in environ : kv[1] = key
    THEN (CHOOSE kv \in environ : kv[1] = key)[2]
    ELSE default

\* os.path.exists(path) and os.path.isdir(path); neither raises
exists(path) == path \in fs_files \cup fs_dirs

isdir(path) == path \in fs_dirs

\* os.path.join(path, name) for a relative name: a drive-only prefix
\* ("C:") takes no separator on nt, and a trailing separator is not doubled
join(path, name) ==
    LET drive == IF os_name = "nt" /\ Len(path) >= 2 /\ path[2] = ":"
                 THEN SubSeq(path, 1, 2) ELSE <<>>
        rest  == SubSeq(path, Len(drive) + 1, Len(path))
    IN  drive
        \o (IF rest # <<>> /\ rest[Len(rest)] \notin seps
            THEN Append(rest, sep) ELSE rest)
        \o <<name>>

\* str.split(separator) for a one-character separator: k separators give
\* k + 1 fields, empty ones included
RECURSIVE split_from(_, _, _, _)
split_from(s, separator, i, field) ==
    IF i > Len(s) THEN <<field>>
    ELSE IF s[i] = separator
         THEN <<field>> \o split_from(s, separator, i + 1, <<>>)
         ELSE split_from(s, separator, i + 1, Append(field, s[i]))

split(s, separator) == split_from(s, separator, 1, <<>>)

\* Exception classes that webbrowser can raise, with their base class
BaseOf(cls) ==
    CASE cls = "Error"     -> "Exception"
      [] cls = "OSError"   -> "Exception"
      [] cls = "Exception" -> "BaseException"
      [] OTHER             -> "object"

RECURSIVE issubclass(_, _)
issubclass(cls, base) ==
    IF cls = base THEN TRUE
    ELSE IF cls = "object" THEN FALSE
    ELSE issubclass(BaseOf(cls), base)

RaisedClasses == {"Error", "OSError"}

\* str(e) of a raised exception
Description(cls) ==
    IF cls = "Error" THEN "could not locate runnable browser"
    ELSE "[WinError 2] The system cannot find the file specified"

\* webbrowser.open returns True or False, or raises
LaunchOutcomes == {"True", "False"} \cup RaisedClasses

\* webbrowser.get returns a controller, or raises
ResolveOutcomes == {"controller", "Error"}

----------------------------------------------------------------------------
(* Standard output *)

Line(kind, text, path) == [kind |-> kind, text |-> text, path |-> path]

\* print(...): the line goes to the end of standard output
write(stream, line) == Append(stream, line)

\* `except Exception`
Catches_OnlyWebbrowserError(cls) == issubclass(cls, "Error")

Catches(cls) == issubclass(cls, "Exception")

\* The lines of a finished scan, printed one after the other
writelines(stream, lines) == stream \o lines

\* A call of os.path.exists or os.path.isdir, kept in the trace of a scan
\* between the lines the scan prints
Probe(path) == Line("probe", "", path)

\* The lines a scan prints, and the paths it probes, in order
LinesOf(trace) == LET IsLine(l) == l.kind # "probe" IN SelectSeq(trace, IsLine)

ProbesOf(trace) == LET IsProbe(l) == l.kind = "probe" IN SelectSeq(trace, IsProbe)

----------------------------------------------------------------------------
(* Step 1: default-browser launch probe *)

\* try: webbrowser.open(...); print(ok)  except Exception as e: print(e)
LaunchLines_ConfirmAlways(outcome) ==
    IF outcome \notin RaisedClasses THEN <<Line("launch_ok", "", <<>>)>>
    ELSE IF Catches(outcome)
         THEN <<Line("launch_ok", "", <<>>),
                Line("launch_err", Description(outcome), <<>>)>>
         ELSE <<>>

LaunchLines(outcome) ==
    IF outcome \notin RaisedClasses THEN <<Line("launch_ok", "", <<>>)>>
    ELSE IF Catches(outcome)
         THEN <<Line("launch_err", Description(outcome), <<>>)>>
         ELSE <<>>

----------------------------------------------------------------------------
(* Step 2: known-path existence scan *)

\* for path in paths: if os.path.exists(path): print; found = True; break
RECURSIVE CheckCandidates_NoBreak(_, _, _)
CheckCandidates_NoBreak(browser_name, candidates, i) ==
    IF i > Len(candidates) THEN <<>>
    ELSE (IF exists(candidates[i])
          THEN <<Probe(candidates[i]),
                 Line("found", browser_name, candidates[i])>>
          ELSE <<Probe(candidates[i])>>)
         \o CheckCandidates_NoBreak(browser_name, candidates, i + 1)

RECURSIVE CheckCandidates(_, _, _)
CheckCandidates(browser_name, candidates, i) ==
    IF i > Len(candidates) THEN <<>>
    ELSE IF exists(candidates[i])
         THEN <<Probe(candidates[i]),
                Line("found", browser_name, candidates[i])>>
         ELSE <<Probe(candidates[i])>>
              \o CheckCandidates(browser_name, candidates, i + 1)

\* found = False; the inner loop; if not found: print(not found)
CheckBrowser_NotFoundAlways(entry) ==
    Append(CheckCandidates(entry.name, entry.paths, 1),
           Line("not_found", entry.name, <<>>))

CheckBrowser_InvertedTest(entry) ==
    LET trace == CheckCandidates(entry.name, entry.paths, 1)
        found == trace # <<>> /\ trace[Len(trace)].kind = "found"
    IN  IF ~found THEN trace
        ELSE Append(trace, Line("not_found", entry.name, <<>>))

CheckBrowser(entry) ==
    LET trace == CheckCandidates(entry.name, entry.paths, 1)
        found == trace # <<>> /\ trace[Len(trace)].kind = "found"
    IN  IF found THEN trace
        ELSE Append(trace, Line("not_found", entry.name, <<>>))

\* for browser_name, paths in browsers.items()
RECURSIVE KnownPathScan_Reversed(_, _)
KnownPathScan_Reversed(table, i) ==
    IF i > Len(table) THEN <<>>
    ELSE KnownPathScan_Reversed(table, i + 1) \o CheckBrowser(table[i])

RECURSIVE KnownPathScan(_, _)
KnownPathScan(table, i) ==
    IF i > Len(table) THEN <<>>
    ELSE CheckBrowser(table[i]) \o KnownPathScan(table, i + 1)

----------------------------------------------------------------------------
(* Step 3: PATH environment scan *)

\* The separator the script splits PATH on
PathListSeparator_Colon == ":"

PathListSeparator == ";"

\* exe_path = os.path.join(path, exe); if os.path.exists(exe_path): print
CheckExe(path, exe) ==
    LET exe_path == join(path, exe)
    IN  IF exists(exe_path)
        THEN <<Probe(exe_path), Line("path_match", "", exe_path)>>
        ELSE <<Probe(exe_path)>>

\* for exe in browser_exes
RECURSIVE CheckExes(_, _)
CheckExes(path, j) ==
    IF j > Len(browser_exes) THEN <<>>
    ELSE CheckExe(path, browser_exes[j]) \o CheckExes(path, j + 1)

\* if os.path.isdir(path): the inner loop
CheckPathEntry_Unguarded(path) == <<Probe(path)>> \o CheckExes(path, 1)

CheckPathEntry(path) ==
    IF isdir(path) THEN <<Probe(path)>> \o CheckExes(path, 1)
    ELSE <<Probe(path)>>

\* for path in paths
RECURSIVE PathScan_StopsAtMatch(_, _)
PathScan_StopsAtMatch(entries, i) ==
    IF i > Len(entries) THEN <<>>
    ELSE IF \E k \in DOMAIN CheckPathEntry(entries[i]) :
              CheckPathEntry(entries[i])[k].kind = "path_match"
         THEN CheckPathEntry(entries[i])
         ELSE CheckPathEntry(entries[i])
              \o PathScan_StopsAtMatch(entries, i + 1)

RECURSIVE PathScan(_, _)
PathScan(entries, i) ==
    IF i > Len(entries) THEN <<>>
    ELSE CheckPathEntry(entries[i]) \o PathScan(entries, i + 1)

----------------------------------------------------------------------------
(* Step 4: default-browser controller query *)

\* try: browser = webbrowser.get(); print(browser)  except Exception as e
QueryLines(outcome) ==
    IF outcome \notin RaisedClasses
    THEN <<Line("controller", outcome, <<>>)>>
    ELSE IF Catches(outcome)
         THEN <<Line("query_err", Description(outcome), <<>>)>>
         ELSE <<>>

----------------------------------------------------------------------------
(* Initial states: the host, the environment and the filesystem *)

AllCandidates(table) ==
    UNION {{table[i].paths[j] : j \in DOMAIN table[i].paths} : i \in DOMAIN table}

BoundedSubsets(S, n) == {X \in SUBSET S : Cardinality(X) <= n}

Environments == {{}} \cup {{<<"PATH", v>>} : v \in PathValues}

InstalledFiles(dirs) == {join(d, e) : d \in dirs, e \in InstalledExes}

\* A browser executable in the current directory, named by a relative path
CwdFiles == {<<"chrome.exe">>}

\* Any few candidate paths installed, under a handful of PATH values whose
\* directories hold browser executables
InitKnown ==
    /\ os_name \in {"nt", "posix"}
    /\ browsers \in {BrowserTable, ScenarioTable}
    /\ environ \in {{}, {<<"PATH", <<>>>>}, {<<"PATH", <<"a", ";", "b">>>>}}
    /\ fs_dirs = DirNames
    /\ fs_files \in
         {X \cup CwdFiles \cup {join(d, "chrome.exe") : d \in DirNames}
            \cup {join(<<"b">>, "iexplore.exe")} :
            X \in BoundedSubsets(AllCandidates(browsers), MaxExisting)}

\* Any PATH value over any directories, with no candidate path installed
InitPath ==
    /\ os_name \in {"nt", "posix"}
    /\ browsers = BrowserTable
    /\ environ \in Environments
    /\ fs_dirs \in SUBSET DirNames
    /\ fs_files \in SUBSET (InstalledFiles(fs_dirs) \cup CwdFiles)

Init ==
    /\ InitKnown \/ InitPath
    /\ pc = "launch"
    /\ out = <<>>
    /\ paths = <<>>
    /\ probed = <<>>
    /\ launch_outcome = "pending"
    /\ resolve_outcome = "pending"
    /\ exit_status = -1

----------------------------------------------------------------------------
(* The four steps.  An exception no handler catches ends the process with  *)
(* status 1; running off the end of the script ends it with status 0.      *)

Step1_Launch ==
    /\ pc = "launch"
    /\ \E outcome \in LaunchOutcomes :
         /\ launch_outcome' = outcome
         /\ out' = writelines(write(write(out, Line("banner", "", <<>>)),
                                           Line("section", "1", <<>>)),
                               LaunchLines(outcome))
         /\ IF outcome \in RaisedClasses /\ ~Catches(outcome)
            THEN pc' = "exited" /\ exit_status' = 1
            ELSE pc' = "known" /\ exit_status' = exit_status
    /\ UNCHANGED <<os_name, environ, browsers, fs_files, fs_dirs, paths,
                   probed, resolve_outcome>>

Step2_KnownPaths ==
    /\ pc = "known"
    /\ LET trace == KnownPathScan(browsers, 1)
       IN  /\ out' = writelines(write(out, Line("section", "2", <<>>)),
                                 LinesOf(trace))
           /\ probed' = probed \o ProbesOf(trace)
    /\ paths' = browsers[Len(browsers)].paths
    /\ pc' = "path"
    /\ UNCHANGED <<os_name, environ, browsers, fs_files, fs_dirs,
                   launch_outcome, resolve_outcome, exit_status>>

Step3_PathEnv ==
    /\ pc = "path"
    /\ LET env_path == environ_get("PATH", <<>>)
           entries  == split(env_path, PathListSeparator)
           trace    == PathScan(entries, 1)
       IN  /\ paths' = entries
           /\ out' = writelines(write(out, Line("section", "3", <<>>)),
                                 LinesOf(trace))
           /\ probed' = probed \o ProbesOf(trace)
    /\ pc' = "query"
    /\ UNCHANGED <<os_name, environ, browsers, fs_files, fs_dirs,
                   launch_outcome, resolve_outcome, exit_status>>

Step4_Controller ==
    /\ pc = "query"
    /\ \E outcome \in ResolveOutcomes :
         /\ resolve_outcome' = outcome
         /\ out' = writelines(write(out, Line("section", "4", <<>>)),
                               QueryLines(outcome))
         /\ exit_status' =
              IF outcome \in RaisedClasses /\ ~Catches(outcome) THEN 1 ELSE 0
    /\ pc' = "exited"
    /\ UNCHANGED <<os_name, environ, browsers, fs_files, fs_dirs, paths,
                   probed, launch_outcome>>

Next ==
    \/ Step1_Launch
    \/ Step2_KnownPaths
    \/ Step3_PathEnv
    \/ Step4_Controller

Spec == Init /\ [][Next]_vars

\* The initial states of InitKnown alone
InitLive ==
    /\ InitKnown
    /\ pc = "launch"
    /\ out = <<>>
    /\ paths = <<>>
    /\ probed = <<>>
    /\ launch_outcome = "pending"
    /\ resolve_outcome = "pending"
    /\ exit_status = -1

\* The interpreter runs the next statement whenever there is one
FairSpec == InitLive /\ [][Next]_vars /\ WF_vars(Next)

----------------------------------------------------------------------------
(* Vocabulary of the properties *)

Range(f) == {f[i] : i \in DOMAIN f}

ProbedPaths == {probed[k].path : k \in DOMAIN probed}

Exited == pc = "exited"

AfterKnownPaths == pc \in {"path", "query", "exited"}

AfterPathScan == pc \in {"query", "exited"}

OfKind(kind) == LET Is(l) == l.kind = kind IN SelectSeq(out, Is)

Printed(kind) == \E i \in DOMAIN out : out[i].kind = kind

SectionPrinted(n) == \E i \in DOMAIN out : out[i] = Line("section", n, <<>>)

\* The found and the not-found lines printed for one browser name
FoundLines(name) ==
    LET Is(l) == l.kind = "found" /\ l.text = name IN SelectSeq(out, Is)

NotFoundLines(name) ==
    LET Is(l) == l.kind = "not_found" /\ l.text = name IN SelectSeq(out, Is)

Installed(entry) == {j \in DOMAIN entry.paths : exists(entry.paths[j])}

FirstInstalled(entry) ==
    CHOOSE j \in Installed(entry) : \A k \in Installed(entry) : j <= k

----------------------------------------------------------------------------
\* C1: an error raised by webbrowser.open or by webbrowser.get is caught in
\* its own step and its description is printed; it never ends the process:
\* after a raising step 1 the steps 2, 3 and 4 still run, and after a
\* raising step 4 the run ends with status 0.
C1_ErrorsCaughtLocally ==
    /\ launch_outcome \in RaisedClasses =>
         /\ Line("launch_err", Description(launch_outcome), <<>>) \in Range(out)
         /\ exit_status # 1
         /\ pc # "launch"
         /\ Exited => /\ SectionPrinted("2")
                      /\ SectionPrinted("3")
                      /\ SectionPrinted("4")
                      /\ Range(paths) \subseteq ProbedPaths
                      /\ resolve_outcome # "pending"
    /\ resolve_outcome \in RaisedClasses =>
         /\ Line("query_err", Description(resolve_outcome), <<>>) \in Range(out)
         /\ Exited
         /\ exit_status = 0

C1_Witness ==
    /\ Exited
    /\ launch_outcome = "OSError"
    /\ resolve_outcome = "Error"
    /\ Printed("launch_err")
    /\ Printed("query_err")

\* C2: whatever webbrowser.open and webbrowser.get do and whatever the
\* filesystem and PATH hold, the run reaches its end and exits with status 0.
C2_RunCompletes == <>(Exited /\ exit_status = 0)

C2_Witness ==
    /\ Exited
    /\ exit_status = 0
    /\ launch_outcome \in RaisedClasses
    /\ resolve_outcome \in RaisedClasses
    /\ ~Printed("found")
    /\ ~Printed("path_match")

\* C3: a browser with at least one existing candidate path is reported found
\* with exactly the first existing path in candidate order; no later
\* candidate of that browser is reported or even checked.
C3_FirstMatch ==
    AfterKnownPaths =>
      \A i \in DOMAIN browsers :
        LET entry == browsers[i] IN
        Installed(entry) # {} =>
          /\ FoundLines(entry.name) =
               <<Line("found", entry.name, entry.paths[FirstInstalled(entry)])>>
          /\ \A j \in DOMAIN entry.paths :
               entry.paths[j] \in ProbedPaths <=> j <= FirstInstalled(entry)

C3_Witness ==
    /\ AfterKnownPaths
    /\ browsers = BrowserTable
    /\ ~exists(ChromePaths[1])
    /\ exists(ChromePaths[2])
    /\ exists(ChromePaths[3])
    /\ FoundLines("Chrome") = <<Line("found", "Chrome", ChromePaths[2])>>

\* C4: the known-path scan prints exactly one line per browser of the table:
\* a not-found line if and only if none of its candidate paths exists, and
\* a single found line otherwise.
C4_OneLinePerBrowser ==
    AfterKnownPaths =>
      /\ \A i \in DOMAIN browsers :
           LET entry == browsers[i] IN
           /\ Len(FoundLines(entry.name)) + Len(NotFoundLines(entry.name)) = 1
           /\ Len(NotFoundLines(entry.name)) = 1 <=> Installed(entry) = {}
      /\ Len(OfKind("found")) + Len(OfKind("not_found")) = Len(browsers)

C4_Witness ==
    /\ AfterKnownPaths
    /\ browsers = BrowserTable
    /\ Len(FoundLines("Edge")) = 1
    /\ Len(NotFoundLines("Chrome")) = 1
    /\ Len(OfKind("found")) + Len(OfKind("not_found")) = 4

\* The match lines printed for one joined path
MatchLines(p) ==
    LET Is(l) == l.kind = "path_match" /\ l.path = p IN SelectSeq(out, Is)

Occurrences(d) == Cardinality({i \in DOMAIN paths : paths[i] = d})

EnvPath == environ_get("PATH", <<>>)

\* C5: every PATH entry that is a directory and every listed executable that
\* exists in it gives one match line; a directory named twice, or two
\* directories holding the same executable, give a line each.
C5_PathScanExhaustive ==
    AfterPathScan =>
      \A d \in fs_dirs : \A j \in DOMAIN browser_exes :
        Len(MatchLines(join(d, browser_exes[j]))) =
          IF exists(join(d, browser_exes[j])) THEN Occurrences(d) ELSE 0

C5_Witness ==
    /\ AfterPathScan
    /\ paths = << <<"a">>, <<"b">> >>
    /\ Len(MatchLines(join(<<"a">>, "chrome.exe"))) = 1
    /\ Len(MatchLines(join(<<"b">>, "chrome.exe"))) = 1

\* C6: a PATH entry that is no directory (the empty entry of an empty or
\* unset PATH included) gives no match line, no error line and no exception,
\* and the entries after it are still scanned.
C6_InvalidEntriesSkipped ==
    AfterPathScan =>
      /\ \A i \in DOMAIN paths :
           ~isdir(paths[i]) =>
             /\ paths[i] \in ProbedPaths
             /\ \A j \in DOMAIN browser_exes :
                  /\ join(paths[i], browser_exes[j]) \notin ProbedPaths
                  /\ MatchLines(join(paths[i], browser_exes[j])) = <<>>
      /\ \A k \in DOMAIN out :
           out[k].kind = "path_match" =>
             \E d \in fs_dirs \cap Range(paths) : \E j \in DOMAIN browser_exes :
               out[k].path = join(d, browser_exes[j])
      /\ \A i, k \in DOMAIN paths : \A j \in DOMAIN browser_exes :
           (i < k /\ ~isdir(paths[i]) /\ isdir(paths[k])
              /\ exists(join(paths[k], browser_exes[j])))
             => MatchLines(join(paths[k], browser_exes[j])) # <<>>
      /\ exit_status # 1

C6_Witness ==
    /\ AfterPathScan
    /\ paths = << <<>>, <<"a">> >>
    /\ exists(<<"chrome.exe">>)
    /\ OfKind("path_match") =
         <<Line("path_match", "", join(<<"a">>, "chrome.exe"))>>

RECURSIVE JoinWith(_, _)
JoinWith(entries, c) ==
    IF Len(entries) = 1 THEN entries[1]
    ELSE entries[1] \o <<c>> \o JoinWith(Tail(entries), c)

\* C7 as stated: on every host the entries scanned are the directories the
\* platform resolves from PATH, that is PATH split on os.pathsep.
C7_Orig_PlatformEntries ==
    AfterPathScan => Range(paths) = Range(split(EnvPath, pathsep))

\* C7 as amended: the scan splits PATH on the literal ";": no entry holds a
\* ";" and the entries joined with ";" give PATH back; the entries are the
\* platform's on a host whose path-list separator is ";" (Windows).
C7_SplitsOnSemicolon ==
    AfterPathScan =>
      /\ paths # <<>>
      /\ \A i \in DOMAIN paths : ";" \notin Range(paths[i])
      /\ JoinWith(paths, ";") = EnvPath
      /\ os_name = "nt" => Range(paths) = Range(split(EnvPath, pathsep))

C7_Witness ==
    /\ AfterPathScan
    /\ os_name = "posix"
    /\ EnvPath = <<"a", ":", "b">>
    /\ paths = << <<"a", ":", "b">> >>
    /\ <<"a">> \in fs_dirs
    /\ <<"a">> \notin ProbedPaths

\* C8 as stated: whenever the launch did not succeed, a failure message is
\* printed instead of the confirmation message, and the run continues.
C8_Orig_ConfirmOnlyOnSuccess ==
    launch_outcome \notin {"pending", "True"} =>
      /\ Printed("launch_err")
      /\ ~Printed("launch_ok")
      /\ exit_status # 1

\* C8 as amended: the confirmation message is printed exactly when
\* webbrowser.open returns without raising, also when it returns False
\* because no browser could be launched; the failure message is printed
\* exactly when it raises; either way the run continues.
C8_ConfirmUnlessRaised ==
    launch_outcome # "pending" =>
      /\ Len(OfKind("launch_ok")) =
           IF launch_outcome \in {"True", "False"} THEN 1 ELSE 0
      /\ Len(OfKind("launch_err")) =
           IF launch_outcome \in RaisedClasses THEN 1 ELSE 0
      /\ exit_status # 1
      /\ Exited => SectionPrinted("2")

C8_Witness ==
    /\ launch_outcome = "False"
    /\ Printed("launch_ok")
    /\ ~Printed("launch_err")
    /\ SectionPrinted("2")

\* The report without the banner and the section headers
Content ==
    LET Is(l) == l.kind \notin {"banner", "section"} IN SelectSeq(out, Is)

ScenarioHolds ==
    /\ browsers = ScenarioTable
    /\ AllCandidates(browsers) \cap (fs_files \cup fs_dirs) = {}
    /\ EnvPath = <<>>
    /\ launch_outcome = "True"
    /\ resolve_outcome = "controller"

StepOf(l) ==
    CASE l.kind \in {"banner", "launch_ok", "launch_err"} -> 1
      [] l.kind \in {"found", "not_found"} -> 2
      [] l.kind = "path_match" -> 3
      [] l.kind \in {"controller", "query_err"} -> 4
      [] l.kind = "section" /\ l.text = "1" -> 1
      [] l.kind = "section" /\ l.text = "2" -> 2
      [] l.kind = "section" /\ l.text = "3" -> 3
      [] OTHER -> 4

StepsDone ==
    CASE pc = "launch" -> 0
      [] pc = "known"  -> 1
      [] pc = "path"   -> 2
      [] pc = "query"  -> 3
      [] OTHER         -> 4

\* The matches of the PATH scan in PATH entry order, then list order
RECURSIVE ExpectedMatches(_)
ExpectedMatches(n) ==
    IF n = 0 THEN <<>>
    ELSE LET i == ((n - 1) \div Len(browser_exes)) + 1
             j == ((n - 1) % Len(browser_exes)) + 1
             p == join(paths[i], browser_exes[j])
         IN  ExpectedMatches(n - 1)
             \o (IF isdir(paths[i]) /\ exists(p) THEN <<p>> ELSE <<>>)

\* C10: the four steps run once each, in the order 1, 2, 3, 4, whatever
\* their outcomes; every line of a step precedes every line of the next
\* step, known-path lines follow the table's order, and PATH matches follow
\* PATH entry order and then the executable list's order.
C10_FixedOrder ==
    /\ exit_status # 1
    /\ \A i, k \in DOMAIN out : i < k => StepOf(out[i]) <= StepOf(out[k])
    /\ LET sections == OfKind("section")
       IN  /\ Len(sections) = StepsDone
           /\ \A n \in DOMAIN sections : StepOf(sections[n]) = n
    /\ AfterKnownPaths =>
         LET IsKnown(l) == l.kind \in {"found", "not_found"}
             known == SelectSeq(out, IsKnown)
         IN  /\ Len(known) = Len(browsers)
             /\ \A n \in DOMAIN known : known[n].text = browsers[n].name
    /\ AfterPathScan =>
         LET matches == OfKind("path_match")
             expected == ExpectedMatches(Len(paths) * Len(browser_exes))
         IN  /\ Len(matches) = Len(expected)
             /\ \A n \in DOMAIN matches : matches[n].path = expected[n]

C10_Witness ==
    /\ Exited
    /\ launch_outcome \in RaisedClasses
    /\ resolve_outcome \in RaisedClasses
    /\ Printed("found")
    /\ Printed("not_found")
    /\ paths = << <<"a">>, <<"b">> >>
    /\ OfKind("path_match") =
         <<Line("path_match", "", join(<<"a">>, "chrome.exe")),
           Line("path_match", "", join(<<"b">>, "chrome.exe")),
           Line("path_match", "", join(<<"b">>, "iexplore.exe"))>>

====
